---------------------------- MODULE Spec2Model ----------------------------
(***************************************************************************)
(* A model of the travel-itinerary pipeline: the six provider adapters of  *)
(* travel_tools.py, TravelAgent.generate_itinerary of travel_agent.py and  *)
(* the generate-itinerary endpoint of api.py.                              *)
(*                                                                         *)
(* Python values are modelled as follows.  A dict is a function whose      *)
(* DOMAIN is the set of keys present, so d.get(k, default) is Get below.   *)
(* A list is a sequence.  A str that the code only copies is a TLA+        *)
(* string; a date string, which the code parses, is a sequence of          *)
(* one-character strings.  A float with one decimal is an integer number   *)
(* of tenths (4.0 is 40).  A value whose Python type matters (a rating) is *)
(* a record tagged with its type.  A call that can raise yields a record   *)
(* whose field kind is "raise".                                            *)
(***************************************************************************)
EXTENDS Integers, Sequences, FiniteSets, TLC

(***************************************************************************)
(* Bounds of the model.                                                    *)
(***************************************************************************)
\* the calendar years of the date strings: FirstYear .. FirstYear + YearSpan
YearSpan == 1
\* the longest list of routes one directions query answers with
MaxRoutes == 3
\* the longest list of results one attractions search answers with
MaxResults == 6

FirstYear == 2023

(***************************************************************************)
(* dict.get(key, default)                                                  *)
(***************************************************************************)
Get(d, key, default) == IF key \in DOMAIN d THEN d[key] ELSE default

\* list[:n]
Take(s, n) == IF Len(s) <= n THEN s ELSE SubSeq(s, 1, n)

(***************************************************************************)
(* Dates.  datetime.strptime(s, "%Y-%m-%d") of travel_agent.py matches s   *)
(* against the regular expression                                          *)
(*   (\d\d\d\d)-(1[0-2]|0[1-9]|[1-9])-(3[01]|[12]\d|0[1-9]|[1-9]| [1-9])   *)
(* from the start, raises ValueError when the match fails or leaves        *)
(* characters over, and raises ValueError when year, month and day are no  *)
(* date of the calendar.                                                   *)
(***************************************************************************)
DigitChars == <<"0", "1", "2", "3", "4", "5", "6", "7", "8", "9">>

IsDigit(c) == \E i \in 1..10 : DigitChars[i] = c

DigitVal(c) == (CHOOSE i \in 1..10 : DigitChars[i] = c) - 1

CharAt(s, i) == IF i >= 1 /\ i <= Len(s) THEN s[i] ELSE "$"

\* the number of characters the %m alternatives 1[0-2] | 0[1-9] | [1-9] match
\* at position i, tried in that order (0: none matches)
MonthLen(s, i) ==
  LET a == CharAt(s, i)
      b == CharAt(s, i + 1)
  IN  IF a = "1" /\ b \in {"0", "1", "2"} THEN 2
      ELSE IF a = "0" /\ IsDigit(b) /\ b # "0" THEN 2
      ELSE IF IsDigit(a) /\ a # "0" THEN 1
      ELSE 0

\* the same for %d: 3[01] | [12]\d | 0[1-9] | [1-9] | " "[1-9]
DayLen(s, i) ==
  LET a == CharAt(s, i)
      b == CharAt(s, i + 1)
  IN  IF a = "3" /\ b \in {"0", "1"} THEN 2
      ELSE IF a \in {"1", "2"} /\ IsDigit(b) THEN 2
      ELSE IF a = "0" /\ IsDigit(b) /\ b # "0" THEN 2
      ELSE IF IsDigit(a) /\ a # "0" THEN 1
      ELSE IF a = " " /\ IsDigit(b) /\ b # "0" THEN 2
      ELSE 0

\* int() of the digits of s from position i, n characters long; a leading
\* space (the last %d alternative) counts for nothing
RECURSIVE ToInt(_, _, _)
ToInt(s, i, n) ==
  IF n = 0 THEN 0
  ELSE 10 * ToInt(s, i, n - 1)
         + (IF IsDigit(s[i + n - 1]) THEN DigitVal(s[i + n - 1]) ELSE 0)

IsLeap(y) == (y % 4 = 0) /\ ((y % 100 # 0) \/ (y % 400 = 0))

\* datetime's table of month lengths
DaysInMonth(y, m) ==
  IF m = 2 THEN (IF IsLeap(y) THEN 29 ELSE 28)
  ELSE IF m \in {4, 6, 9, 11} THEN 30 ELSE 31

\* datetime._days_before_year
DaysBeforeYear(y) ==
  LET p == y - 1 IN p * 365 + (p \div 4) - (p \div 100) + (p \div 400)

\* datetime._DAYS_BEFORE_MONTH, with the leap day of datetime._days_before_month
DaysBeforeMonth(y, m) ==
  <<0, 31, 59, 90, 120, 151, 181, 212, 243, 273, 304, 334>>[m]
    + (IF m > 2 /\ IsLeap(y) THEN 1 ELSE 0)

\* datetime.toordinal
Ordinal(dt) == DaysBeforeYear(dt.year) + DaysBeforeMonth(dt.year, dt.month) + dt.day

ParseError == [ok |-> FALSE]

StrptimeNoCalendar(s) ==
  IF ~(\A i \in 1..4 : IsDigit(CharAt(s, i))) \/ CharAt(s, 5) # "-" THEN ParseError
  ELSE
    LET ml == MonthLen(s, 6) IN
    IF ml = 0 \/ CharAt(s, 6 + ml) # "-" THEN ParseError
    ELSE
      LET dl == DayLen(s, 7 + ml) IN
      IF dl = 0 \/ Len(s) # 6 + ml + dl THEN ParseError
      ELSE [ok |-> TRUE, year |-> ToInt(s, 1, 4), month |-> ToInt(s, 6, ml),
            day |-> ToInt(s, 7 + ml, dl)]

\* datetime.strptime(s, "%Y-%m-%d"): a datetime, or ParseError for ValueError
Strptime(s) ==
  IF ~(\A i \in 1..4 : IsDigit(CharAt(s, i))) \/ CharAt(s, 5) # "-" THEN ParseError
  ELSE
    LET ml == MonthLen(s, 6) IN
    IF ml = 0 \/ CharAt(s, 6 + ml) # "-" THEN ParseError
    ELSE
      LET dl == DayLen(s, 7 + ml) IN
      IF dl = 0 \/ Len(s) # 6 + ml + dl THEN ParseError
      ELSE
        LET y == ToInt(s, 1, 4)
            m == ToInt(s, 6, ml)
            d == ToInt(s, 7 + ml, dl)
        IN  IF y < 1 \/ d > DaysInMonth(y, m) THEN ParseError
            ELSE [ok |-> TRUE, year |-> y, month |-> m, day |-> d]

NumDaysPlain(start, end) == Ordinal(end) - Ordinal(start)

\* num_days = (end - start).days + 1
NumDays(start, end) == Ordinal(end) - Ordinal(start) + 1


(***************************************************************************)
(* The outcome of one outbound call: it raised, or it returned data.       *)
(***************************************************************************)
Raised == [kind |-> "raise"]

Returned(data) == [kind |-> "ok", data |-> data]

\* {} 
EmptyDict == [k \in {} |-> 0]

\* one entry of the log of outbound calls
Call(api, args, outcome) == [api |-> api, args |-> args, outcome |-> outcome]

(***************************************************************************)
(* get_transportation                                                      *)
(***************************************************************************)
\* the option returned for mode "flight"
FlightOption(from_location, to_location, travel_date) ==
  [type |-> "transportation",
   title |-> <<"Flight options from", from_location, to_location>>,
   description |-> "Flight booking is currently not supported in the app",
   steps |-> <<"Please check popular flight booking websites:",
               "- Google Flights", "- Skyscanner", "- Kayak",
               "- Your preferred airline's website",
               "Search for flights from .. to .. for travel_date">>]

\* the option returned when no query produced an option
NoRoutesOption(from_location, to_location) ==
  [type |-> "transportation",
   title |-> <<"No direct routes found from", from_location, to_location>>,
   description |-> "Consider checking alternative transportation methods",
   steps |-> <<"Consider breaking your journey into smaller segments",
               "Check with local transportation authorities",
               "Consider alternative travel dates",
               "Look for multi-modal transportation options">>]

ModesToCheckDrivingFirst(mode) ==
  IF mode = "car" THEN << <<"driving", <<>> >> >>
  ELSE IF mode = "train" THEN << <<"transit", <<"rail", "train">> >> >>
  ELSE << <<"driving", <<>> >>, <<"transit", <<"bus", "train", "subway">> >> >>

\* modes_to_check: the (travel_mode, transit_modes) pairs, None being <<>>
ModesToCheck(mode) ==
  IF mode = "car" THEN << <<"driving", <<>> >> >>
  ELSE IF mode = "train" THEN << <<"transit", <<"rail", "train">> >> >>
  ELSE << <<"transit", <<"bus", "train", "subway">> >>, <<"driving", <<>> >> >>

\* params of one directions query: transit_mode is set only when truthy
DirectionsParams(travel_mode, transit_modes) ==
  IF transit_modes # <<>>
  THEN [mode |-> travel_mode, alternatives |-> TRUE, transit_mode |-> transit_modes]
  ELSE [mode |-> travel_mode, alternatives |-> TRUE]

\* the html_instructions of the steps that have one
RECURSIVE StepInstructions(_)
StepInstructions(steps) ==
  IF steps = <<>> THEN <<>>
  ELSE (IF "html_instructions" \in DOMAIN Head(steps)
        THEN <<Head(steps).html_instructions>> ELSE <<>>)
       \o StepInstructions(Tail(steps))

\* route.get("legs", [])[0] raises IndexError when the route has no leg
RouteRaises(route) == Get(route, "legs", <<>>) = <<>>

\* the option built from one route (lines 68-91); the fuel-cost step is kept
\* as a fixed text, its amount is not modelled
RouteOption(travel_mode, route) ==
  LET legs == Get(route, "legs", <<>>)[1]
      steps == Get(legs, "steps", <<>>)
  IN  IF travel_mode = "driving"
      THEN [type |-> "transportation",
            title |-> <<"Driving from", Get(legs, "start_address", "None"),
                        Get(legs, "end_address", "None")>>,
            description |-> "Duration: .., Distance: ..",
            steps |-> StepInstructions(steps) \o
                      <<"Suggested stops every 2-3 hours for rest",
                        "Check parking options at your destination",
                        "Ensure your vehicle is serviced for long-distance travel",
                        "Estimated fuel cost based on distance">>]
      ELSE [type |-> "transportation",
            title |-> <<"Public Transit from", Get(legs, "start_address", "None"),
                        Get(legs, "end_address", "None")>>,
            description |-> "Duration: .., Distance: ..",
            steps |-> StepInstructions(steps)]

\* the options one mode appends for the routes given, in order, up to the
\* first route that raises (the except of line 93 ends that mode's loop)
RECURSIVE RouteOptions(_, _)
RouteOptions(travel_mode, routes) ==
  IF routes = <<>> \/ RouteRaises(Head(routes)) THEN <<>>
  ELSE <<RouteOption(travel_mode, Head(routes))>>
         \o RouteOptions(travel_mode, Tail(routes))

\* the options of one pass of the loop of line 50 for the outcome of its query
ModeOptions(travel_mode, outcome) ==
  IF outcome.kind = "raise" THEN <<>>
  ELSE RouteOptions(travel_mode, Take(outcome.data, 2))

RECURSIVE CheckModesAbort(_, _, _)
CheckModesAbort(modes, outcomes, i) ==
  IF i > Len(modes) THEN [options |-> <<>>, calls |-> <<>>]
  ELSE LET this == <<Call("directions", DirectionsParams(modes[i][1], modes[i][2]),
                          outcomes[i])>>
           rest == CheckModesAbort(modes, outcomes, i + 1)
       IN  IF outcomes[i].kind = "raise" THEN [options |-> <<>>, calls |-> this]
           ELSE [options |-> ModeOptions(modes[i][1], outcomes[i]) \o rest.options,
                 calls |-> this \o rest.calls]

\* the loop of line 50 over modes_to_check from its i-th pair on;
\* outcomes[i] is the outcome of the i-th directions query
RECURSIVE CheckModes(_, _, _)
CheckModes(modes, outcomes, i) ==
  IF i > Len(modes) THEN [options |-> <<>>, calls |-> <<>>]
  ELSE LET rest == CheckModes(modes, outcomes, i + 1)
       IN  [options |-> ModeOptions(modes[i][1], outcomes[i]) \o rest.options,
            calls |-> <<Call("directions",
                             DirectionsParams(modes[i][1], modes[i][2]),
                             outcomes[i])>> \o rest.calls]

GetTransportationNoFallback(from_location, to_location, travel_date, mode, keyOk, outcomes) ==
  IF ~keyOk THEN [result |-> <<>>, calls |-> <<>>]
  ELSE IF mode = "flight"
  THEN [result |-> <<FlightOption(from_location, to_location, travel_date)>>,
        calls |-> <<>>]
  ELSE LET r == CheckModes(ModesToCheck(mode), outcomes, 1)
       IN  [result |-> r.options, calls |-> r.calls]

\* get_transportation: keyOk says whether GoogleMapsClient(key=...) of line 20
\* returns (it raises ValueError for a missing or ill-formed key, which the
\* except of line 113 turns into [])
GetTransportation(from_location, to_location, travel_date, mode, keyOk, outcomes) ==
  IF ~keyOk THEN [result |-> <<>>, calls |-> <<>>]
  ELSE IF mode = "flight"
  THEN [result |-> <<FlightOption(from_location, to_location, travel_date)>>,
        calls |-> <<>>]
  ELSE LET r == CheckModes(ModesToCheck(mode), outcomes, 1)
       IN  [result |-> IF r.options = <<>>
                       THEN <<NoRoutesOption(from_location, to_location)>>
                       ELSE r.options,
            calls |-> r.calls]

(***************************************************************************)
(* get_weather_forecast                                                    *)
(***************************************************************************)
\* f"{x:.1f}°C": a number x (in tenths) formats; anything else raises
FormatRaises(x) == x.t # "num"

FormatCelsius(x) == [tenths |-> x.v, unit |-> "°C"]

\* whether building weather_data (lines 166-171) raises on the weather
\* response data: a missing key, an empty list, a temperature of another type
WeatherDataRaises(data) ==
  \/ "main" \notin DOMAIN data
  \/ {"temp", "feels_like", "humidity"} \ DOMAIN data.main # {}
  \/ FormatRaises(data.main.temp)
  \/ FormatRaises(data.main.feels_like)
  \/ "weather" \notin DOMAIN data
  \/ data.weather = <<>>
  \/ "description" \notin DOMAIN data.weather[1]

WeatherData(data) ==
  [temperature |-> FormatCelsius(data.main.temp),
   feels_like |-> FormatCelsius(data.main.feels_like),
   status |-> data.weather[1].description,
   humidity |-> data.main.humidity]

\* geo_data[0]["lat"], geo_data[0]["lon"] raise on an entry without them
GeoEntryRaises(entry) == {"lat", "lon"} \ DOMAIN entry # {}

GetWeatherForecastPartial(location, date, geo, wx) ==
  LET geoCall == Call("geocoding", [q |-> location, limit |-> 1], geo)
  IN  IF geo.kind = "raise" \/ geo.data = <<>> \/ GeoEntryRaises(geo.data[1])
      THEN [result |-> EmptyDict, calls |-> <<geoCall>>]
      ELSE LET wxCall == Call("weather",
                              [lat |-> geo.data[1].lat, lon |-> geo.data[1].lon,
                               units |-> "metric"], wx)
           IN  [result |-> IF wx.kind = "raise" THEN EmptyDict
                           ELSE IF "main" \notin DOMAIN wx.data
                                THEN [status |-> "unknown"]
                                ELSE IF WeatherDataRaises(wx.data) THEN EmptyDict
                                     ELSE WeatherData(wx.data),
                calls |-> <<geoCall, wxCall>>]

\* get_weather_forecast: geo and wx are the outcomes of the geocoding and of
\* the current-weather request (requests.get(...).json())
GetWeatherForecast(location, date, geo, wx) ==
  LET geoCall == Call("geocoding", [q |-> location, limit |-> 1], geo)
  IN  IF geo.kind = "raise" \/ geo.data = <<>> \/ GeoEntryRaises(geo.data[1])
      THEN [result |-> EmptyDict, calls |-> <<geoCall>>]
      ELSE LET wxCall == Call("weather",
                              [lat |-> geo.data[1].lat, lon |-> geo.data[1].lon,
                               units |-> "metric"], wx)
           IN  [result |-> IF wx.kind = "raise" \/ WeatherDataRaises(wx.data)
                           THEN EmptyDict ELSE WeatherData(wx.data),
                calls |-> <<geoCall, wxCall>>]

(***************************************************************************)
(* get_attractions                                                         *)
(* A search result is [t |-> "dict", d |-> the dict] or, when the provider *)
(* sends something else, [t |-> "str"].  A rating is [t |-> "num", v |-> n] *)
(* (n tenths) or [t |-> "str", v |-> the text].                            *)
(***************************************************************************)
\* the [:5] of line 196
AttractionsCap == 5

\* result.get("rating", 4.0)
DefaultRating == [t |-> "num", v |-> 40]

\* the texts float() converts, with their value in tenths
NumericTexts == [s \in {"3.5"} |-> 35]

\* float(x) raises ValueError for a text that is no number
FloatRaises(x) == x.t = "str" /\ x.v \notin DOMAIN NumericTexts

\* float(x), in tenths
Float(x) == IF x.t = "num" THEN x.v ELSE NumericTexts[x.v]

\* whether the body of the try of line 197 raises for this result
AttractionRaises(result) ==
  \/ result.t # "dict"
  \/ FloatRaises(Get(result.d, "rating", DefaultRating))

\* the attraction built from one result (lines 198-205)
Attraction(result) ==
  [title |-> Get(result.d, "title", "Unknown Attraction"),
   description |-> Get(result.d, "content",
                       Get(result.d, "snippet", "No description available")),
   url |-> Get(result.d, "url", ""),
   image |-> Get(result.d, "image_url", ""),
   rating |-> Float(Get(result.d, "rating", DefaultRating)),
   category |-> "Tourist Spot"]

RECURSIVE AttractionsOfBreak(_)
AttractionsOfBreak(results) ==
  IF results = <<>> \/ AttractionRaises(Head(results)) THEN <<>>
  ELSE <<Attraction(Head(results))>> \o AttractionsOfBreak(Tail(results))

\* the loop of line 196: results whose processing raises are skipped
RECURSIVE AttractionsOf(_)
AttractionsOf(results) ==
  IF results = <<>> THEN <<>>
  ELSE (IF AttractionRaises(Head(results)) THEN <<>>
        ELSE <<Attraction(Head(results))>>)
       \o AttractionsOf(Tail(results))

\* get_attractions: resp is the outcome of client.search (a dict, or a raise,
\* which stands for TavilyClient(...) raising as well)
GetAttractions(location, resp) ==
  [result |-> IF resp.kind = "raise" THEN <<>>
              ELSE AttractionsOf(Take(Get(resp.data, "results", <<>>), AttractionsCap)),
   calls |-> <<Call("search", [query |-> <<"top tourist attractions in", location>>,
                               search_depth |-> "advanced"], resp)>>]

(***************************************************************************)
(* get_local_tips                                                          *)
(***************************************************************************)
\* the [:3] of line 317
TipsCap == 3

\* the tip built from one result (lines 319-324)
Tip(result) ==
  [title |-> Get(result.d, "title", "Local Tip"),
   description |-> Get(result.d, "content",
                       Get(result.d, "snippet", "No description available")),
   url |-> Get(result.d, "url", ""),
   category |-> "Local Tips"]

\* the loop of line 317: a result that is no dict raises and is skipped
RECURSIVE TipsOf(_)
TipsOf(results) ==
  IF results = <<>> THEN <<>>
  ELSE (IF Head(results).t # "dict" THEN <<>> ELSE <<Tip(Head(results))>>)
       \o TipsOf(Tail(results))

\* get_local_tips
GetLocalTips(location, resp) ==
  [result |-> IF resp.kind = "raise" THEN <<>>
              ELSE TipsOf(Take(Get(resp.data, "results", <<>>), TipsCap)),
   calls |-> <<Call("search", [query |-> <<"local tips and customs in", location>>,
                               search_depth |-> "advanced"], resp)>>]

(***************************************************************************)
(* get_restaurants, get_hotels                                             *)
(***************************************************************************)
\* the [:5] of lines 241 and 282
PlacesCap == 5

\* s.replace('_', ' ').title() on the category tags of the model
TitleCased ==
  [s \in {"restaurant", "meal_takeaway", "lodging", "Local"} |->
     CASE s = "restaurant" -> "Restaurant"
       [] s = "meal_takeaway" -> "Meal Takeaway"
       [] s = "lodging" -> "Lodging"
       [] OTHER -> "Local"]

\* geocode_result[0]['geometry']['location'] and its 'lat', 'lng'
GeocodeRaises(entry) ==
  \/ "geometry" \notin DOMAIN entry
  \/ "location" \notin DOMAIN entry.geometry
  \/ {"lat", "lng"} \ DOMAIN entry.geometry.location # {}

\* detail.get('price_level', 2) or 2: the number of '$' of the price tier
PriceLevel(detail) ==
  LET p == Get(detail, "price_level", 2) IN IF p = 0 THEN 2 ELSE p

\* whether one pass of the loop of line 241 raises: no place_id, the detail
\* lookup raising, or an empty list of types
RestaurantRaises(place, detail) ==
  \/ "place_id" \notin DOMAIN place
  \/ detail.kind = "raise"
  \/ Get(place, "types", <<"Local">>) = <<>>

\* the record appended at line 246; rating is copied as the provider gave it
Restaurant(place, detail) ==
  LET d == Get(detail.data, "result", EmptyDict)
  IN  [name |-> Get(d, "name", ""),
       description |-> <<"Located at:", Get(d, "formatted_address", "")>>,
       url |-> Get(d, "website", ""),
       rating |-> Get(d, "rating", DefaultRating),
       cuisine |-> TitleCased[Get(place, "types", <<"Local">>)[1]],
       price_level |-> PriceLevel(d)]

\* whether one pass of the loop of line 282 raises
HotelRaises(place, detail) ==
  \/ "place_id" \notin DOMAIN place
  \/ detail.kind = "raise"

\* the record appended at line 287
Hotel(place, detail, location) ==
  LET d == Get(detail.data, "result", EmptyDict)
      types == Get(place, "types", <<>>)
  IN  [name |-> Get(d, "name", ""),
       description |-> <<"Located at:", Get(d, "formatted_address", "")>>,
       url |-> Get(d, "website", ""),
       rating |-> Get(d, "rating", DefaultRating),
       location |-> location,
       amenities |-> [i \in 1..Len(types) |-> TitleCased[types[i]]]]

\* the place-detail calls the loop makes for places i.. : it stops at the
\* first pass that raises (a place without place_id raises before its call)
RECURSIVE DetailCalls(_, _, _, _)
DetailCalls(kind, places, details, i) ==
  IF i > Len(places) \/ "place_id" \notin DOMAIN places[i] THEN <<>>
  ELSE <<Call("place", [place_id |-> places[i].place_id], details[i])>>
       \o (IF (kind = "restaurant" /\ RestaurantRaises(places[i], details[i]))
              \/ (kind = "lodging" /\ HotelRaises(places[i], details[i]))
           THEN <<>>
           ELSE DetailCalls(kind, places, details, i + 1))

\* get_restaurants and get_hotels share lines 222-238 / 263-279: the client,
\* the geocoding, the nearby search.  kind is 'restaurant' or 'lodging';
\* geocode and nearby are the outcomes of gmaps.geocode and
\* gmaps.places_nearby, details[i] that of gmaps.place for the i-th place.
GetPlaces(kind, location, keyOk, geocode, nearby, details) ==
  IF ~keyOk THEN [result |-> <<>>, calls |-> <<>>]
  ELSE
    LET geoCall == Call("geocode", [address |-> location], geocode) IN
    IF geocode.kind = "raise" \/ geocode.data = <<>> \/ GeocodeRaises(geocode.data[1])
    THEN [result |-> <<>>, calls |-> <<geoCall>>]
    ELSE
      LET nearCall == Call("places_nearby",
                           [location |-> geocode.data[1].geometry.location,
                            radius |-> 5000, type |-> kind], nearby)
      IN
      IF nearby.kind = "raise"
      THEN [result |-> <<>>, calls |-> <<geoCall, nearCall>>]
      ELSE
        LET places == Take(Get(nearby.data, "results", <<>>), PlacesCap)
            raises == \E i \in 1..Len(places) :
                        IF kind = "restaurant"
                        THEN RestaurantRaises(places[i], details[i])
                        ELSE HotelRaises(places[i], details[i])
        IN  [result |-> IF raises THEN <<>>
                        ELSE [i \in 1..Len(places) |->
                                IF kind = "restaurant"
                                THEN Restaurant(places[i], details[i])
                                ELSE Hotel(places[i], details[i], location)],
             calls |-> <<geoCall, nearCall>> \o DetailCalls(kind, places, details, 1)]

\* get_restaurants
GetRestaurants(location, keyOk, geocode, nearby, details) ==
  GetPlaces("restaurant", location, keyOk, geocode, nearby, details)

\* get_hotels
GetHotels(location, check_in, keyOk, geocode, nearby, details) ==
  GetPlaces("lodging", location, keyOk, geocode, nearby, details)

(***************************************************************************)
(* TravelAgent.generate_itinerary                                          *)
(***************************************************************************)
\* the prompt of lines 75-117: the values the f-string embeds
Prompt(req, n, tr, we, at, re, ho, ti) ==
  LET preferences == Get(req, "preferences", EmptyDict)
  IN  [num_days |-> n,
       from_location |-> req.from_location,
       to_location |-> req.to_location,
       start_date |-> req.start_date,
       end_date |-> req.end_date,
       travelers |-> Get(req, "number_of_travelers", 1),
       budget |-> Get(preferences, "budget", "None"),
       transportation |-> Get(preferences, "transportation", "None"),
       accommodation |-> Get(preferences, "accommodation_type", "None"),
       transportation_options |-> tr,
       attractions |-> at,
       restaurants |-> re,
       hotels |-> ho,
       weather |-> we,
       local_tips |-> ti]

EnvelopeWithoutData(req, n, content, tr, we, at, re, ho, ti) ==
  [itinerary |-> content,
   from_location |-> req.from_location,
   to_location |-> req.to_location,
   start_date |-> req.start_date,
   end_date |-> req.end_date,
   generated_at |-> "utcnow",
   metadata |-> [includes_weather |-> Get(req, "include_weather", TRUE),
                 includes_local_tips |-> Get(req, "include_local_tips", TRUE),
                 number_of_travelers |-> Get(req, "number_of_travelers", 1)],
   transportation_info |-> <<>>,
   weather_info |-> EmptyDict,
   attractions |-> <<>>,
   restaurants |-> <<>>,
   hotels |-> <<>>,
   local_tips |-> <<>>,
   request_details |-> [from_location |-> req.from_location,
                        to_location |-> req.to_location,
                        start_date |-> req.start_date,
                        end_date |-> req.end_date,
                        duration_days |-> n,
                        preferences |-> Get(req, "preferences", EmptyDict),
                        number_of_travelers |-> Get(req, "number_of_travelers", 1)]]

\* the dict returned at lines 127-154; generated_at, the clock's reading, is
\* kept as a fixed text
Envelope(req, n, content, tr, we, at, re, ho, ti) ==
  [itinerary |-> content,
   from_location |-> req.from_location,
   to_location |-> req.to_location,
   start_date |-> req.start_date,
   end_date |-> req.end_date,
   generated_at |-> "utcnow",
   metadata |-> [includes_weather |-> Get(req, "include_weather", TRUE),
                 includes_local_tips |-> Get(req, "include_local_tips", TRUE),
                 number_of_travelers |-> Get(req, "number_of_travelers", 1)],
   transportation_info |-> tr,
   weather_info |-> we,
   attractions |-> at,
   restaurants |-> re,
   hotels |-> ho,
   local_tips |-> ti,
   request_details |-> [from_location |-> req.from_location,
                        to_location |-> req.to_location,
                        start_date |-> req.start_date,
                        end_date |-> req.end_date,
                        duration_days |-> n,
                        preferences |-> Get(req, "preferences", EmptyDict),
                        number_of_travelers |-> Get(req, "number_of_travelers", 1)]]

VARIABLES
  caller,                  \* "api": the endpoint of api.py; "direct": a caller such as main()
  request,                 \* request_data
  gmapsKeyOk,              \* whether GoogleMapsClient(key=os.getenv(...)) can be built
  pc,                      \* the statement generate_itinerary (or an adapter called alone) is at
  num_days,
  transportation_options,
  weather,
  attractions,
  restaurants,
  hotels,
  local_tips,
  prompt,
  calls,                   \* the outbound calls made so far, in order, with their outcomes
  returns,                 \* what each adapter returned, in order, with the calls it made
  outcome,                 \* of generate_itinerary: none yet, a return value, or a raise
  http                     \* the endpoint's answer: none yet, the body, or the HTTPException

vars == <<caller, request, gmapsKeyOk, pc, num_days, transportation_options, weather,
          attractions, restaurants, hotels, local_tips, prompt, calls, returns,
          outcome, http>>

None == [kind |-> "none"]

(***************************************************************************)
(* The inputs: requests, and what the providers answer.                    *)
(***************************************************************************)
Chr(n) == DigitChars[n + 1]

Pad2(n) == <<Chr(n \div 10), Chr(n % 10)>>

Unpadded(n) == IF n < 10 THEN <<Chr(n)>> ELSE Pad2(n)

SpacePadded(n) == IF n < 10 THEN <<" ", Chr(n)>> ELSE Pad2(n)

Year4(y) == <<Chr(y \div 1000), Chr((y \div 100) % 10), Chr((y \div 10) % 10), Chr(y % 10)>>

\* the date written YYYY-MM-DD
Iso(y, m, d) == Year4(y) \o <<"-">> \o Pad2(m) \o <<"-">> \o Pad2(d)

Years == FirstYear .. (FirstYear + YearSpan)

\* the (month, day) pairs the date strings are written from
MonthDays == {<<2, 1>>, <<2, 5>>, <<2, 29>>, <<12, 31>>}

LeapYear == CHOOSE y \in FirstYear .. (FirstYear + 3) : IsLeap(y)

DateStrings ==
  {Iso(y, md[1], md[2]) : y \in Years, md \in MonthDays}
  \cup {Year4(LeapYear) \o <<"-">> \o Unpadded(2) \o <<"-">> \o Unpadded(5),
        Year4(LeapYear) \o <<"-">> \o Pad2(2) \o <<"-">> \o SpacePadded(5),
        Pad2(2) \o <<"/">> \o Pad2(1) \o <<"/">> \o Year4(LeapYear),
        Iso(LeapYear, 2, 1) \o <<"T", "0", "0", ":", "0", "0">>,
        Iso(LeapYear, 2, 30)}

ExampleStart == Iso(2024, 2, 1)

ExampleEnd == Iso(2024, 2, 5)

Modes == {"flight", "car", "train", "mixed", "bike"}

\* request.model_dump() of a TravelRequest
ApiRequest(sd, ed, mode) ==
  [from_location |-> "San Francisco", to_location |-> "Los Angeles",
   start_date |-> sd, end_date |-> ed,
   preferences |-> [budget |-> "medium", interests |-> <<"food", "culture">>,
                    transportation |-> mode, accommodation_type |-> "hotel",
                    pace |-> "relaxed"],
   number_of_travelers |-> 2, include_weather |-> TRUE, include_local_tips |-> FALSE]

\* a dict as main() passes it: the optional keys are absent
DirectRequest(sd, ed) ==
  [from_location |-> "San Francisco", to_location |-> "Los Angeles",
   start_date |-> sd, end_date |-> ed]

ApiRequests ==
  {ApiRequest(sd, ed, "mixed") : sd \in DateStrings, ed \in DateStrings}
  \cup {ApiRequest(ExampleStart, ExampleEnd, m) : m \in Modes}

DirectRequests == {DirectRequest(ExampleStart, ExampleEnd), DirectRequest(ExampleEnd, ExampleStart)}

SeqsUpTo(S, n) == UNION {[1..k -> S] : k \in 0..n}

GoodRoute(text) ==
  [legs |-> <<[start_address |-> "San Francisco, CA", end_address |-> "Los Angeles, CA",
               steps |-> <<[html_instructions |-> text], [distance |-> "1 km"]>>]>>]

\* a route without legs: processing it raises
BadRoute == [summary |-> "no legs"]

Routes == {GoodRoute("Head south"), GoodRoute("Head east"), BadRoute}

\* what one directions query can answer
DirectionsOutcomes == {Raised} \cup {Returned(rs) : rs \in SeqsUpTo(Routes, MaxRoutes)}

DirectionsFew == {Raised, Returned(<<GoodRoute("Head south")>>)}

Num(n) == [t |-> "num", v |-> n]

GeoOk == Returned(<<[lat |-> 34, lon |-> -118]>>)

WxOk == Returned([main |-> [temp |-> Num(215), feels_like |-> Num(208), humidity |-> 60],
                  weather |-> <<[description |-> "clear sky"]>>])

\* (geocoding outcome, weather outcome)
WeatherOutcomes ==
  {<<Raised, Raised>>, <<Returned(<<>>), WxOk>>, <<Returned(<<[name |-> "LA"]>>), WxOk>>,
   <<GeoOk, Raised>>, <<GeoOk, Returned([cod |-> 401])>>,
   <<GeoOk, Returned([main |-> [temp |-> [t |-> "str", v |-> "21"],
                                feels_like |-> Num(208), humidity |-> 60],
                      weather |-> <<[description |-> "clear sky"]>>])>>,
   <<GeoOk, Returned([main |-> [temp |-> Num(215), feels_like |-> Num(208), humidity |-> 60],
                      weather |-> <<>>])>>,
   <<GeoOk, WxOk>>}

WeatherFew == {<<Raised, Raised>>, <<GeoOk, Returned([cod |-> 401])>>, <<GeoOk, WxOk>>}

\* the i-th search result with the rating field given (none when r is None)
ResultNames == <<"Griffith Observatory", "Getty Center", "Santa Monica Pier",
                 "Hollywood Sign", "Venice Beach", "LACMA", "The Broad", "Olvera Street">>

SearchResult(i, r) ==
  LET base == [title |-> IF i <= Len(ResultNames) THEN ResultNames[i] ELSE "Another place",
               content |-> "text", url |-> "https://example.org"]
  IN  IF r = None THEN [t |-> "dict", d |-> base]
      ELSE IF r = [t |-> "other"] THEN [t |-> "str"]
      ELSE [t |-> "dict", d |-> [k \in DOMAIN base \cup {"rating"} |->
                                    IF k = "rating" THEN r ELSE base[k]]]

\* the ratings a result carries: none, a number, a numeric text, another text;
\* "other" stands for a result that is no dict at all
RatingKinds == {None, Num(45), [t |-> "str", v |-> "3.5"], [t |-> "str", v |-> "N/A"],
                [t |-> "other"]}

SearchOutcomes ==
  {Raised, Returned([error |-> "rate limited"])}
  \cup {Returned([results |-> [i \in 1..Len(rs) |-> SearchResult(i, rs[i])]]) :
          rs \in SeqsUpTo(RatingKinds, MaxResults)}

SearchFew ==
  {Raised,
   Returned([results |-> <<SearchResult(1, Num(45)), SearchResult(2, None)>>])}

GeocodeOk == Returned(<<[geometry |-> [location |-> [lat |-> 34, lng |-> -118]]]>>)

Place(id, types) == [place_id |-> id, types |-> types]

DetailOk(name) == Returned([result |-> [name |-> name, formatted_address |-> "1 Main St",
                                        price_level |-> 3]])

\* (geocode outcome, nearby-search outcome, place-detail outcomes)
PlacesOutcomes(kind) ==
  {<<Raised, Raised, <<>> >>,
   <<Returned(<<>>), Raised, <<>> >>,
   <<GeocodeOk, Raised, <<>> >>,
   <<GeocodeOk, Returned([results |-> <<Place("p1", <<kind>>), Place("p2", <<>>)>>]),
     <<DetailOk("One"), Returned([status |-> "NOT_FOUND"])>> >>,
   <<GeocodeOk, Returned([results |-> <<Place("p1", <<kind>>), [name |-> "no id"]>>]),
     <<DetailOk("One"), DetailOk("Two")>> >>,
   <<GeocodeOk, Returned([results |-> <<Place("p1", <<kind>>), Place("p2", <<kind>>)>>]),
     <<DetailOk("One"), Raised>> >>,
   <<GeocodeOk, Returned([results |-> <<Place("p1", <<kind, "meal_takeaway">>)>>]),
     <<DetailOk("One")>> >>}

PlacesFew(kind) ==
  {<<GeocodeOk, Raised, <<>> >>,
   <<GeocodeOk, Returned([results |-> <<Place("p1", <<kind>>), [name |-> "no id"]>>]),
     <<DetailOk("One"), DetailOk("Two")>> >>,
   <<GeocodeOk, Returned([results |-> <<Place("p1", <<kind, "meal_takeaway">>)>>]),
     <<DetailOk("One")>> >>}

\* what the places provider answers get_restaurants and get_hotels
RestaurantsFew == PlacesFew("restaurant")

HotelsFew == PlacesFew("lodging")

\* what self.llm.invoke answers: response.content, or a raise
ModelOutcomes == {Raised, Returned([content |-> "Here is your itinerary"])}

(***************************************************************************)
(* The state machine.  Spec follows one request through the endpoint and   *)
(* generate_itinerary, statement by statement; SpecRouting and             *)
(* SpecAttractions call get_transportation and get_attractions alone, with *)
(* every answer of the provider up to the bounds.                          *)
(***************************************************************************)
\* one entry of returns
Returns(name, r) == [name |-> name, value |-> r.result, calls |-> r.calls]

Blank ==
  /\ num_days = 0
  /\ transportation_options = <<>>
  /\ weather = EmptyDict
  /\ attractions = <<>>
  /\ restaurants = <<>>
  /\ hotels = <<>>
  /\ local_tips = <<>>
  /\ prompt = None
  /\ calls = <<>>
  /\ returns = <<>>
  /\ outcome = None
  /\ http = None

Init ==
  /\ \/ caller = "api" /\ request \in ApiRequests
     \/ caller = "direct" /\ request \in DirectRequests
  /\ gmapsKeyOk \in BOOLEAN
  /\ pc = "start"
  /\ Blank

\* preferences.get("transportation", "mixed") of line 66
ModeOf(req) == Get(Get(req, "preferences", EmptyDict), "transportation", "mixed")

ValueError == [type |-> "ValueError", message |-> "time data does not match format '%Y-%m-%d'"]

ModelError == [type |-> "APIError", message |-> "the model call failed"]

\* lines 47-59: the locals, then num_days; strptime raising ends the call
ComputeDuration ==
  /\ pc = "start"
  /\ LET start == Strptime(request.start_date)
         end == Strptime(request.end_date)
     IN  IF start.ok /\ end.ok
         THEN /\ num_days' = NumDays(start, end)
              /\ pc' = "get_transportation"
              /\ UNCHANGED outcome
         ELSE /\ outcome' = [kind |-> "raise", error |-> ValueError]
              /\ pc' = "raised"
              /\ UNCHANGED num_days
  /\ UNCHANGED <<caller, request, gmapsKeyOk, transportation_options, weather, attractions,
                 restaurants, hotels, local_tips, prompt, calls, returns, http>>

\* lines 62-67
CallGetTransportation(answers) ==
  /\ pc = "get_transportation"
  /\ \E outcomes \in [1..2 -> answers] :
       LET r == GetTransportation(request.from_location, request.to_location,
                                  request.start_date, ModeOf(request), gmapsKeyOk, outcomes)
       IN  /\ transportation_options' = r.result
           /\ calls' = calls \o r.calls
           /\ returns' = Append(returns, Returns("get_transportation", r))
  /\ pc' = "get_weather_forecast"
  /\ UNCHANGED <<caller, request, gmapsKeyOk, num_days, weather, attractions, restaurants,
                 hotels, local_tips, prompt, outcome, http>>

\* line 68
CallGetWeatherForecast(answers) ==
  /\ pc = "get_weather_forecast"
  /\ \E a \in answers :
       LET r == GetWeatherForecast(request.to_location, request.start_date, a[1], a[2])
       IN  /\ weather' = r.result
           /\ calls' = calls \o r.calls
           /\ returns' = Append(returns, Returns("get_weather_forecast", r))
  /\ pc' = "get_attractions"
  /\ UNCHANGED <<caller, request, gmapsKeyOk, num_days, transportation_options, attractions,
                 restaurants, hotels, local_tips, prompt, outcome, http>>

CallGetAttractionsThenInvoke(answers) ==
  /\ pc = "get_attractions"
  /\ \E a \in answers :
       LET r == GetAttractions(request.to_location, a)
       IN  /\ attractions' = r.result
           /\ calls' = calls \o r.calls
           /\ returns' = Append(returns, Returns("get_attractions", r))
  /\ pc' = "invoke"
  /\ UNCHANGED <<caller, request, gmapsKeyOk, num_days, transportation_options, weather,
                 restaurants, hotels, local_tips, prompt, outcome, http>>

\* line 69
CallGetAttractions(answers) ==
  /\ pc = "get_attractions"
  /\ \E a \in answers :
       LET r == GetAttractions(request.to_location, a)
       IN  /\ attractions' = r.result
           /\ calls' = calls \o r.calls
           /\ returns' = Append(returns, Returns("get_attractions", r))
  /\ pc' = "get_restaurants"
  /\ UNCHANGED <<caller, request, gmapsKeyOk, num_days, transportation_options, weather,
                 restaurants, hotels, local_tips, prompt, outcome, http>>

\* line 70
CallGetRestaurants(answers) ==
  /\ pc = "get_restaurants"
  /\ \E a \in answers :
       LET r == GetRestaurants(request.to_location, gmapsKeyOk, a[1], a[2], a[3])
       IN  /\ restaurants' = r.result
           /\ calls' = calls \o r.calls
           /\ returns' = Append(returns, Returns("get_restaurants", r))
  /\ pc' = "get_hotels"
  /\ UNCHANGED <<caller, request, gmapsKeyOk, num_days, transportation_options, weather,
                 attractions, hotels, local_tips, prompt, outcome, http>>

\* line 71
CallGetHotels(answers) ==
  /\ pc = "get_hotels"
  /\ \E a \in answers :
       LET r == GetHotels(request.to_location, request.start_date, gmapsKeyOk,
                          a[1], a[2], a[3])
       IN  /\ hotels' = r.result
           /\ calls' = calls \o r.calls
           /\ returns' = Append(returns, Returns("get_hotels", r))
  /\ pc' = "get_local_tips"
  /\ UNCHANGED <<caller, request, gmapsKeyOk, num_days, transportation_options, weather,
                 attractions, restaurants, local_tips, prompt, outcome, http>>

\* line 72
CallGetLocalTips(answers) ==
  /\ pc = "get_local_tips"
  /\ \E a \in answers :
       LET r == GetLocalTips(request.to_location, a)
       IN  /\ local_tips' = r.result
           /\ calls' = calls \o r.calls
           /\ returns' = Append(returns, Returns("get_local_tips", r))
  /\ pc' = "invoke"
  /\ UNCHANGED <<caller, request, gmapsKeyOk, num_days, transportation_options, weather,
                 attractions, restaurants, hotels, prompt, outcome, http>>

InvokeModelRetry ==
  /\ pc = "invoke"
  /\ \E a \in ModelOutcomes :
       LET p == Prompt(request, num_days, transportation_options, weather, attractions,
                       restaurants, hotels, local_tips)
           c == Call("llm", <<[role |-> "human", content |-> p]>>, a)
       IN  /\ prompt' = p
           /\ calls' = Append(calls, c)
           /\ IF a.kind = "raise" /\ \E i \in 1..Len(calls) : calls[i].api = "llm"
              THEN /\ outcome' = [kind |-> "raise", error |-> ModelError]
                   /\ pc' = "raised"
              ELSE IF a.kind = "raise"
              THEN /\ pc' = "invoke"
                   /\ UNCHANGED outcome
              ELSE /\ outcome' = [kind |-> "return",
                                  value |-> Envelope(request, num_days, a.data.content,
                                                     transportation_options, weather,
                                                     attractions, restaurants, hotels,
                                                     local_tips)]
                   /\ pc' = "returned"
  /\ UNCHANGED <<caller, request, gmapsKeyOk, num_days, transportation_options, weather,
                 attractions, restaurants, hotels, local_tips, returns, http>>

\* lines 75-154: the prompt, the one model call, the returned dict; the call
\* raising ends generate_itinerary with that exception
InvokeModel ==
  /\ pc = "invoke"
  /\ \E a \in ModelOutcomes :
       LET p == Prompt(request, num_days, transportation_options, weather, attractions,
                       restaurants, hotels, local_tips)
           c == Call("llm", <<[role |-> "human", content |-> p]>>, a)
       IN  /\ prompt' = p
           /\ calls' = Append(calls, c)
           /\ IF a.kind = "raise"
              THEN /\ outcome' = [kind |-> "raise", error |-> ModelError]
                   /\ pc' = "raised"
              ELSE /\ outcome' = [kind |-> "return",
                                  value |-> Envelope(request, num_days, a.data.content,
                                                     transportation_options, weather,
                                                     attractions, restaurants, hotels,
                                                     local_tips)]
                   /\ pc' = "returned"
  /\ UNCHANGED <<caller, request, gmapsKeyOk, num_days, transportation_options, weather,
                 attractions, restaurants, hotels, local_tips, returns, http>>

\* api.py lines 58-68: the itinerary is the body, an exception becomes
\* HTTPException(500) with its text in the detail
EndpointRespond ==
  /\ caller = "api"
  /\ pc \in {"returned", "raised"}
  /\ http' = IF outcome.kind = "return"
             THEN [status |-> 200, body |-> outcome.value]
             ELSE [status |-> 500,
                   detail |-> <<"Error generating itinerary: ", outcome.error.message>>]
  /\ pc' = "responded"
  /\ UNCHANGED <<caller, request, gmapsKeyOk, num_days, transportation_options, weather,
                 attractions, restaurants, hotels, local_tips, prompt, calls, returns,
                 outcome>>

Next ==
  \/ ComputeDuration
  \/ CallGetTransportation(DirectionsFew)
  \/ CallGetWeatherForecast(WeatherFew)
  \/ CallGetAttractions(SearchFew)
  \/ CallGetRestaurants(RestaurantsFew)
  \/ CallGetHotels(HotelsFew)
  \/ CallGetLocalTips(SearchFew)
  \/ InvokeModel
  \/ EndpointRespond

Spec == Init /\ [][Next]_vars

\* get_transportation called alone
InitRouting ==
  /\ caller = "direct"
  /\ request \in {ApiRequest(ExampleStart, ExampleEnd, m) : m \in Modes}
                 \cup {DirectRequest(ExampleStart, ExampleEnd)}
  /\ gmapsKeyOk \in BOOLEAN
  /\ pc = "get_transportation"
  /\ Blank

NextRouting == CallGetTransportation(DirectionsOutcomes)

SpecRouting == InitRouting /\ [][NextRouting]_vars

\* get_attractions called alone
InitAttractions ==
  /\ caller = "direct"
  /\ request = DirectRequest(ExampleStart, ExampleEnd)
  /\ gmapsKeyOk \in BOOLEAN
  /\ pc = "get_attractions"
  /\ Blank

NextAttractions == CallGetAttractions(SearchOutcomes)

SpecAttractions == InitAttractions /\ [][NextAttractions]_vars


(***************************************************************************)
(* Properties of get_transportation                                        *)
(***************************************************************************)
\* the entries of returns that get_transportation made
RoutingReturns == {i \in 1..Len(returns) : returns[i].name = "get_transportation"}

\* the queries of the directions calls of one return, in order
QueriesOf(ret) == [k \in 1..Len(ret.calls) |-> ret.calls[k].args]

IsFlightOption(o) == o.type = "transportation" /\ o.title[1] = "Flight options from"

IsDrivingOption(o) == o.title[1] = "Driving from"

IsTransitOption(o) == o.title[1] = "Public Transit from"

DrivingQuery == [mode |-> "driving", alternatives |-> TRUE]

RailQuery == [mode |-> "transit", alternatives |-> TRUE, transit_mode |-> <<"rail", "train">>]

TransitQuery ==
  [mode |-> "transit", alternatives |-> TRUE, transit_mode |-> <<"bus", "train", "subway">>]

\* the queries the claim C5 gives each non-flight mode
ExpectedQueries(mode) ==
  IF mode = "car" THEN <<DrivingQuery>>
  ELSE IF mode = "train" THEN <<RailQuery>>
  ELSE <<TransitQuery, DrivingQuery>>

TransitBeforeDriving(options) ==
  \A i \in 1..Len(options) : \A j \in 1..Len(options) :
    (IsDrivingOption(options[i]) /\ IsTransitOption(options[j])) => j < i

\* C4: get_transportation with mode 'flight' returns exactly one synthetic
\* option of type 'transportation' that points to flight-search services, and
\* makes no provider call, whatever the state of the routing client.
C4_FlightOneOptionNoCalls ==
  \A i \in RoutingReturns :
    ModeOf(request) = "flight" =>
      /\ Len(returns[i].value) = 1
      /\ IsFlightOption(returns[i].value[1])
      /\ returns[i].calls = <<>>

\* C5 as stated: the directions queries depend on the mode alone: one driving
\* query for 'car', one rail/train transit query for 'train', the transit
\* query and then the driving query for every other non-flight mode, and in
\* the result the transit options precede the driving options.
C5_QueriesByModeAlone ==
  \A i \in RoutingReturns :
    ModeOf(request) # "flight" =>
      /\ QueriesOf(returns[i]) = ExpectedQueries(ModeOf(request))
      /\ TransitBeforeDriving(returns[i].value)

\* C5 amended: the same whenever the routing client could be built; when it
\* could not, no query is issued and the result is the empty list.
C5_QueriesByModeGivenClient ==
  \A i \in RoutingReturns :
    ModeOf(request) # "flight" =>
      IF gmapsKeyOk
      THEN /\ QueriesOf(returns[i]) = ExpectedQueries(ModeOf(request))
           /\ TransitBeforeDriving(returns[i].value)
      ELSE returns[i].calls = <<>> /\ returns[i].value = <<>>

C5_Witness ==
  \E i \in RoutingReturns :
    /\ ModeOf(request) = "bike"
    /\ Len(returns[i].calls) = 2
    /\ \E a, b \in 1..Len(returns[i].value) :
         IsTransitOption(returns[i].value[a]) /\ IsDrivingOption(returns[i].value[b])

\* whether the answer to one directions query yields no option: the query
\* raised, returned no route, or its first route has no leg
YieldsNothing(answer) ==
  \/ answer.kind = "raise"
  \/ answer.data = <<>>
  \/ "legs" \notin DOMAIN answer.data[1]
  \/ answer.data[1].legs = <<>>

\* C6: for a non-flight mode, once all of the mode's directions queries have
\* been attempted and none produced an option, get_transportation returns
\* exactly the one 'no direct routes found' option with the generic
\* suggestions as its steps (and it returns: it does not raise).
C6_NoRoutesFallback ==
  \A i \in RoutingReturns :
    (/\ ModeOf(request) # "flight"
     /\ Len(returns[i].calls) = Len(ExpectedQueries(ModeOf(request)))
     /\ \A k \in 1..Len(returns[i].calls) : YieldsNothing(returns[i].calls[k].outcome))
    => /\ Len(returns[i].value) = 1
       /\ returns[i].value[1].type = "transportation"
       /\ returns[i].value[1].title =
            <<"No direct routes found from", request.from_location, request.to_location>>
       /\ returns[i].value[1].steps =
            <<"Consider breaking your journey into smaller segments",
              "Check with local transportation authorities",
              "Consider alternative travel dates",
              "Look for multi-modal transportation options">>

C6_Witness ==
  \E i \in RoutingReturns :
    /\ ModeOf(request) = "mixed"
    /\ Len(returns[i].calls) = 2
    /\ returns[i].calls[1].outcome.kind = "raise"
    /\ returns[i].calls[2].outcome = Returned(<<BadRoute, GoodRoute("Head east")>>)
    /\ Len(returns[i].value) = 1
    /\ returns[i].value[1].title[1] = "No direct routes found from"

\* whether a route can be processed: it has a first leg
HasLeg(route) == "legs" \in DOMAIN route /\ route.legs # <<>>

\* the routes one mode looks at: the first two of the answer
LookedAt(answer) ==
  IF answer.kind = "raise" THEN <<>>
  ELSE [k \in 1..(IF Len(answer.data) < 2 THEN Len(answer.data) ELSE 2) |-> answer.data[k]]

\* whether querying or processing one mode failed: the query raised, or one
\* of the routes looked at is malformed
ModeFailed(answer) ==
  \/ answer.kind = "raise"
  \/ \E k \in 1..Len(LookedAt(answer)) : ~HasLeg(LookedAt(answer)[k])

\* the routes of one mode that became options before the mode's failure, if any
RoutesBeforeFailure(answer) ==
  LET looked == LookedAt(answer)
      n == Cardinality({k \in 1..Len(looked) : \A j \in 1..k : HasLeg(looked[j])})
  IN  [k \in 1..n |-> looked[k]]

\* whether the options are those of the routes, one each and in order
OptionsOfRoutes(options, routes) ==
  /\ Len(options) = Len(routes)
  /\ \A k \in 1..Len(routes) :
       /\ options[k].type = "transportation"
       /\ options[k].title[2] = routes[k].legs[1].start_address
       /\ options[k].steps[1] = routes[k].legs[1].steps[1].html_instructions

\* the answer to the query of the travel mode given, among the calls of a return
AnswersFor(ret, travel_mode) ==
  {ret.calls[k].outcome : k \in {j \in 1..Len(ret.calls) : ret.calls[j].args.mode = travel_mode}}

\* C12: in get_transportation a failure while querying or processing one
\* transport mode does not abort the remaining mode queries: every query of
\* the mode list is still issued, in order (for 'mixed' the driving query after
\* a failed transit query); the result keeps the options appended before the
\* failure and has those of each later mode, at most 2 options per queried mode.
C12_ModeFailureDoesNotAbort ==
  \A i \in RoutingReturns :
    (\E k \in 1..Len(returns[i].calls) : ModeFailed(returns[i].calls[k].outcome))
    => /\ QueriesOf(returns[i]) = ExpectedQueries(ModeOf(request))
       /\ \A a \in AnswersFor(returns[i], "transit") :
            OptionsOfRoutes(SelectSeq(returns[i].value, IsTransitOption),
                            RoutesBeforeFailure(a))
       /\ \A a \in AnswersFor(returns[i], "driving") :
            OptionsOfRoutes(SelectSeq(returns[i].value, IsDrivingOption),
                            RoutesBeforeFailure(a))
       /\ AnswersFor(returns[i], "transit") = {} =>
            SelectSeq(returns[i].value, IsTransitOption) = <<>>
       /\ AnswersFor(returns[i], "driving") = {} =>
            SelectSeq(returns[i].value, IsDrivingOption) = <<>>
       /\ Len(SelectSeq(returns[i].value, IsTransitOption)) <= 2
       /\ Len(SelectSeq(returns[i].value, IsDrivingOption)) <= 2
       /\ Len(returns[i].value) <= 2 * Len(returns[i].calls)

\* mode 'mixed': the transit query fails after one option was appended, the
\* driving query answers three routes, two of which become options
C12_Witness ==
  \E i \in RoutingReturns :
    /\ ModeOf(request) = "mixed"
    /\ Len(returns[i].calls) = 2
    /\ returns[i].calls[1].outcome = Returned(<<GoodRoute("Head south"), BadRoute>>)
    /\ returns[i].calls[2].outcome =
         Returned(<<GoodRoute("Head east"), GoodRoute("Head south"), GoodRoute("Head east")>>)
    /\ Len(returns[i].value) = 3
    /\ IsTransitOption(returns[i].value[1])
    /\ IsDrivingOption(returns[i].value[2])
    /\ IsDrivingOption(returns[i].value[3])

\* mode 'mixed': the transit query itself raises, the driving query is still
\* issued and its options are returned
C12_WitnessQueryRaised ==
  \E i \in RoutingReturns :
    /\ ModeOf(request) = "mixed"
    /\ Len(returns[i].calls) = 2
    /\ returns[i].calls[1].outcome.kind = "raise"
    /\ returns[i].calls[2].outcome.kind = "ok"
    /\ Len(returns[i].value) = 2
    /\ IsDrivingOption(returns[i].value[1])

(***************************************************************************)
(* Properties of get_attractions                                          *)
(***************************************************************************)
AttractionsReturns == {i \in 1..Len(returns) : returns[i].name = "get_attractions"}

\* the search results get_attractions looks at: the first five
ConsideredResults(ret) ==
  LET answer == ret.calls[1].outcome
      all == IF answer.kind = "ok" /\ "results" \in DOMAIN answer.data
             THEN answer.data.results ELSE <<>>
  IN  [k \in 1..(IF Len(all) < 5 THEN Len(all) ELSE 5) |-> all[k]]

HasNoRating(res) == res.t = "dict" /\ "rating" \notin DOMAIN res.d

HasNumber(res) == res.t = "dict" /\ "rating" \in DOMAIN res.d /\ res.d.rating.t = "num"

HasNumericText(res) ==
  res.t = "dict" /\ "rating" \in DOMAIN res.d /\ res.d.rating = [t |-> "str", v |-> "3.5"]

HasOtherText(res) ==
  res.t = "dict" /\ "rating" \in DOMAIN res.d /\ res.d.rating = [t |-> "str", v |-> "N/A"]

\* the rating the claim C10 gives a result, in tenths
ClaimedRating(res) ==
  IF HasNumber(res) THEN res.d.rating.v
  ELSE IF HasNumericText(res) THEN 35
  ELSE 40

\* C10 as stated: each of the first (at most 5) results that is a dict has a
\* record in the returned collection, whose rating is the provider's numeric
\* rating when one is given and exactly 4.0 when the rating is absent or
\* non-numeric.
C10_EveryResultRated ==
  \A i \in AttractionsReturns :
    LET res == ConsideredResults(returns[i]) IN
    \A k \in 1..Len(res) :
      res[k].t = "dict" =>
        \E j \in 1..Len(returns[i].value) :
          /\ returns[i].value[j].title = res[k].d.title
          /\ returns[i].value[j].rating = ClaimedRating(res[k])

\* the results that get a record: dicts whose rating is absent or a number
\* (as a number or as numeric text)
Kept(res) == {k \in 1..Len(res) : HasNoRating(res[k]) \/ HasNumber(res[k]) \/ HasNumericText(res[k])}

\* C10 amended: the returned collection holds, in the provider's order, one
\* record for each of the first (at most 5) results whose rating is absent
\* (rating exactly 4.0) or numeric (that rating); a result whose rating is
\* present but not numeric gets no record, and the other results keep theirs.
C10_RatedOrSkipped ==
  \A i \in AttractionsReturns :
    LET res == ConsideredResults(returns[i])
        out == returns[i].value
    IN  /\ Len(out) = Cardinality(Kept(res))
        /\ \A k \in Kept(res) :
             LET j == Cardinality({x \in Kept(res) : x <= k})
             IN  /\ out[j].title = res[k].d.title
                 /\ out[j].rating = ClaimedRating(res[k])
                 /\ out[j].category = "Tourist Spot"
        /\ \A k \in 1..Len(res) :
             HasOtherText(res[k]) => \A j \in 1..Len(out) : out[j].title # res[k].d.title

C10_Witness ==
  \E i \in AttractionsReturns :
    LET res == ConsideredResults(returns[i])
        out == returns[i].value
    IN  /\ returns[i].calls[1].outcome.kind = "ok"
        /\ "results" \in DOMAIN returns[i].calls[1].outcome.data
        /\ Len(returns[i].calls[1].outcome.data.results) = 6
        /\ HasOtherText(res[1]) /\ HasNoRating(res[2]) /\ HasNumber(res[3])
        /\ HasNumericText(res[4]) /\ HasOtherText(res[5])
        /\ Len(out) = 3
        /\ out[1].rating = 40 /\ out[2].rating = 45 /\ out[3].rating = 35

(***************************************************************************)
(* Properties of generate_itinerary and of the endpoint                    *)
(***************************************************************************)
\* the calendar, written out for the claims
MonthLengths == <<31, 28, 31, 30, 31, 30, 31, 31, 30, 31, 30, 31>>

HasLeapDay(y) == IF y % 400 = 0 THEN TRUE ELSE IF y % 100 = 0 THEN FALSE ELSE y % 4 = 0

LengthOfMonth(y, m) == IF m = 2 /\ HasLeapDay(y) THEN 29 ELSE MonthLengths[m]

\* the calendar dates of the years the date strings are written in
CalendarDates ==
  {<<y, m, d>> \in (FirstYear .. (FirstYear + 3)) \X (1..12) \X (1..31) :
     d <= LengthOfMonth(y, m)}

\* the date strings of the requests
RequestDates == {r.start_date : r \in ApiRequests \cup DirectRequests}
                  \cup {r.end_date : r \in ApiRequests \cup DirectRequests}

\* for each of them, the calendar dates it is the YYYY-MM-DD form of
IsoDatesOf == [s \in RequestDates |-> {c \in CalendarDates : s = Iso(c[1], c[2], c[3])}]

\* the well-formed YYYY-MM-DD strings
IsIsoDate(s) == IsoDatesOf[s] # {}

\* the ways of writing a date as year-month-day with '-' between them: the
\* month and the day with or without their leading zero, a one-digit day also
\* with a space in its place
Writings(c) ==
  {Year4(c[1]) \o <<"-">> \o m \o <<"-">> \o d :
     m \in {Pad2(c[2]), Unpadded(c[2])},
     d \in {Pad2(c[3]), Unpadded(c[3]), SpacePadded(c[3])}}

\* for each date string of the requests, the calendar dates it writes
WrittenDatesOf == [s \in RequestDates |-> {c \in CalendarDates : s \in Writings(c)}]

IsWrittenDate(s) == WrittenDatesOf[s] # {}

\* the calendar date a string writes
DateOf(s) == CHOOSE c \in WrittenDatesOf[s] : TRUE

\* the number of the day c counted from the first of January of FirstYear,
\* adding up the lengths of the years and months before it
RECURSIVE DaysOfMonthsBefore(_, _)
DaysOfMonthsBefore(y, m) ==
  IF m = 1 THEN 0 ELSE DaysOfMonthsBefore(y, m - 1) + LengthOfMonth(y, m - 1)

RECURSIVE DaysOfYearsBefore(_)
DaysOfYearsBefore(y) ==
  IF y <= FirstYear THEN 0
  ELSE DaysOfYearsBefore(y - 1) + (IF HasLeapDay(y - 1) THEN 366 ELSE 365)

DayNumber(c) == DaysOfYearsBefore(c[1]) + DaysOfMonthsBefore(c[1], c[2]) + c[3]

EnvelopeFields ==
  {"itinerary", "from_location", "to_location", "start_date", "end_date", "generated_at",
   "metadata", "transportation_info", "weather_info", "attractions", "restaurants",
   "hotels", "local_tips", "request_details"}

ModelCalls == {k \in 1..Len(calls) : calls[k].api = "llm"}

\* the failure path of a request: generate_itinerary raised before any adapter
\* or model call, no envelope exists, and the endpoint answers 500
FailedAtDuration ==
  /\ outcome.kind = "raise"
  /\ outcome.error.type = "ValueError"
  /\ calls = <<>>
  /\ returns = <<>>
  /\ prompt = None
  /\ http # None => (http.status = 500 /\ "body" \notin DOMAIN http)
  /\ (caller = "api" /\ pc = "responded") => http # None

\* C3 as stated: a start_date or end_date that is no well-formed YYYY-MM-DD
\* date makes the request fail at the duration step, before any adapter and
\* before the model, with no envelope and a status-500 answer.
C3_NonIsoDateFails ==
  (pc # "start" /\ (~IsIsoDate(request.start_date) \/ ~IsIsoDate(request.end_date)))
    => FailedAtDuration

\* C3 amended: the same for a start_date or end_date that does not write a
\* calendar date as four-digit year, month and day with '-' between them,
\* where the month and the day may lack their leading zero (2024-2-5) and a
\* one-digit day may have a space for it; such writings are accepted like
\* YYYY-MM-DD ones and do not fail at the duration step.
C3_UnwrittenDateFails ==
  /\ (pc # "start" /\ (~IsWrittenDate(request.start_date) \/ ~IsWrittenDate(request.end_date)))
       => FailedAtDuration
  /\ (pc # "start" /\ IsWrittenDate(request.start_date) /\ IsWrittenDate(request.end_date))
       => ~(outcome.kind = "raise" /\ outcome.error.type = "ValueError")

C3_Witness ==
  /\ request.start_date = Iso(2024, 2, 1)
  /\ request.end_date = Pad2(2) \o <<"/">> \o Pad2(1) \o <<"/">> \o Year4(2024)
  /\ pc = "responded"
  /\ http.status = 500
  /\ calls = <<>>

\* C7: when both dates are well-formed, start_date <= end_date and the
\* composition succeeds, request_details.duration_days and the day count of
\* the prompt are the days from start_date to end_date plus 1: 5 for
\* 2024-02-01 to 2024-02-05, 1 for equal dates.
C7_DurationIsDaysPlusOne ==
  (/\ outcome.kind = "return"
   /\ IsWrittenDate(request.start_date) /\ IsWrittenDate(request.end_date)
   /\ DayNumber(DateOf(request.start_date)) <= DayNumber(DateOf(request.end_date)))
  => LET n == DayNumber(DateOf(request.end_date)) - DayNumber(DateOf(request.start_date)) + 1
     IN  /\ outcome.value.request_details.duration_days = n
         /\ prompt.num_days = n
         /\ (request.start_date = ExampleStart /\ request.end_date = ExampleEnd) => n = 5
         /\ request.start_date = request.end_date => n = 1

C7_Witness ==
  /\ outcome.kind = "return"
  /\ request.start_date = Iso(2024, 2, 5)
  /\ request.end_date = Iso(2024, 12, 31)
  /\ outcome.value.request_details.duration_days = 331
  /\ prompt.num_days = 331

\* C8: every response generate_itinerary returns, and every body the endpoint
\* answers with, has duration_days >= 1: a request whose end_date is earlier
\* than its start_date gets no response, no adapter data and no narrative.
C8_DurationAtLeastOne ==
  /\ outcome.kind = "return" => outcome.value.request_details.duration_days >= 1
  /\ (http # None /\ http.status = 200) => http.body.request_details.duration_days >= 1
  /\ (/\ IsWrittenDate(request.start_date) /\ IsWrittenDate(request.end_date)
      /\ DayNumber(DateOf(request.end_date)) < DayNumber(DateOf(request.start_date)))
     => (returns = <<>> /\ ModelCalls = {} /\ outcome.kind # "return")

\* the envelope's field for each adapter
SectionOf ==
  [n \in {"get_transportation", "get_weather_forecast", "get_attractions",
          "get_restaurants", "get_hotels", "get_local_tips"} |->
     CASE n = "get_transportation" -> "transportation_info"
       [] n = "get_weather_forecast" -> "weather_info"
       [] n = "get_attractions" -> "attractions"
       [] n = "get_restaurants" -> "restaurants"
       [] n = "get_hotels" -> "hotels"
       [] OTHER -> "local_tips"]

AdapterOrder ==
  <<"get_transportation", "get_weather_forecast", "get_attractions", "get_restaurants",
    "get_hotels", "get_local_tips">>

\* a current-weather answer with everything the snapshot needs
IsWeatherShaped(data) ==
  /\ {"main", "weather"} \subseteq DOMAIN data
  /\ {"temp", "feels_like", "humidity"} \subseteq DOMAIN data.main
  /\ data.main.temp.t = "num" /\ data.main.feels_like.t = "num"
  /\ data.weather # <<>>
  /\ "description" \in DOMAIN data.weather[1]

\* whether the answer to one provider call is a raise or malformed data
BadAnswer(c) ==
  \/ c.outcome.kind = "raise"
  \/ c.api = "directions" /\ YieldsNothing(c.outcome)
  \/ c.api = "geocoding" /\ (c.outcome.data = <<>> \/ "lat" \notin DOMAIN c.outcome.data[1])
  \/ c.api = "weather" /\ ~IsWeatherShaped(c.outcome.data)
  \/ c.api = "search" /\ "results" \notin DOMAIN c.outcome.data
  \/ c.api = "geocode" /\ (c.outcome.data = <<>> \/ "geometry" \notin DOMAIN c.outcome.data[1])
  \/ c.api = "places_nearby" /\
       \E k \in 1..Len(Get(c.outcome.data, "results", <<>>)) :
         k <= 5 /\ "place_id" \notin DOMAIN c.outcome.data.results[k]

\* whether the provider failed the adapter of this entry of returns: its
\* client could not be built, or every directions query, respectively some
\* call of another adapter, raised or answered with malformed data
ProviderFailed(ret) ==
  \/ ret.name \in {"get_transportation", "get_restaurants", "get_hotels"} /\ ~gmapsKeyOk
  \/ ret.name = "get_transportation" /\ ret.calls # <<>>
       /\ \A k \in 1..Len(ret.calls) : BadAnswer(ret.calls[k])
  \/ ret.name # "get_transportation" /\ \E k \in 1..Len(ret.calls) : BadAnswer(ret.calls[k])

\* the documented empty value of each adapter: the empty collection, the
\* empty record, and for get_transportation also the one synthetic
\* 'no direct routes found' option
IsSentinel(name, value) ==
  IF name = "get_transportation"
  THEN \/ value = <<>>
       \/ Len(value) = 1 /\ value[1].title[1] = "No direct routes found from"
  ELSE IF name = "get_weather_forecast" THEN value = EmptyDict
  ELSE value = <<>>

ModelAnswered ==
  Len(calls) > 0 /\ calls[Len(calls)].api = "llm" /\ calls[Len(calls)].outcome.kind = "ok"

ModelRaised == \E k \in ModelCalls : calls[k].outcome.kind = "raise"

\* C1: an adapter whose provider raises or answers with malformed data
\* returns its empty sentinel and does not raise; generate_itinerary raises
\* only at the duration step or at the model call, and when the model call
\* succeeds it returns the full envelope, whose section for each failed
\* adapter holds the sentinel.
C1_AdapterFailuresAbsorbed ==
  /\ \A i \in 1..Len(returns) :
       ProviderFailed(returns[i]) => IsSentinel(returns[i].name, returns[i].value)
  /\ outcome.kind = "raise" =>
       \/ calls = <<>> /\ returns = <<>>
       \/ Len(returns) = 6 /\ calls[Len(calls)].api = "llm"
            /\ calls[Len(calls)].outcome.kind = "raise"
  /\ pc \in {"get_weather_forecast", "get_attractions", "get_restaurants", "get_hotels",
             "get_local_tips", "invoke"} => outcome = None
  /\ ModelAnswered =>
       /\ outcome.kind = "return"
       /\ DOMAIN outcome.value = EnvelopeFields
       /\ Len(returns) = 6
       /\ \A i \in 1..Len(returns) :
            ProviderFailed(returns[i]) =>
              IsSentinel(returns[i].name, outcome.value[SectionOf[returns[i].name]])

C1_Witness ==
  /\ gmapsKeyOk
  /\ ModeOf(request) = "mixed"
  /\ Len(returns) = 6
  /\ \A i \in 1..6 : ProviderFailed(returns[i]) /\ returns[i].calls # <<>>
  /\ \E k \in 1..Len(calls) : calls[k].api = "weather" /\ calls[k].outcome.kind = "ok"
  /\ outcome.kind = "return"
  /\ Len(outcome.value.transportation_info) = 1
  /\ outcome.value.weather_info = EmptyDict
  /\ outcome.value.hotels = <<>>
  /\ pc = "responded"
  /\ http.status = 200

\* C2: the model is invoked at most once; when its call fails
\* generate_itinerary returns no envelope, and the endpoint answers with
\* status 500 and a message describing the failure; every answer is a full
\* envelope or an error, never a part of an envelope.
C2_ModelFailureAllOrNothing ==
  /\ Cardinality(ModelCalls) <= 1
  /\ ModelRaised =>
       /\ outcome = [kind |-> "raise", error |-> ModelError]
       /\ pc \in {"raised", "responded"}
       /\ http # None =>
            http = [status |-> 500,
                    detail |-> <<"Error generating itinerary: ", ModelError.message>>]
  /\ outcome.kind = "return" => DOMAIN outcome.value = EnvelopeFields
  /\ outcome.kind = "raise" => DOMAIN outcome = {"kind", "error"}
  /\ http # None =>
       \/ http.status = 200 /\ DOMAIN http.body = EnvelopeFields /\ outcome.kind = "return"
       \/ http.status = 500 /\ DOMAIN http = {"status", "detail"} /\ outcome.kind = "raise"
  /\ pc = "responded" => http # None

C2_Witness ==
  /\ ModelRaised
  /\ Len(returns) = 6
  /\ returns[3].value # <<>>
  /\ returns[2].value # EmptyDict
  /\ pc = "responded"
  /\ http.status = 500

\* C9: in a successful composition the six raw collections of the response
\* are the values the adapters returned, next to the narrative the model
\* gave, and the response echoes the request's origin, destination, dates
\* and traveler count.
C9_RawDataEchoed ==
  outcome.kind = "return" =>
    LET v == outcome.value IN
    /\ Len(returns) = 6
    /\ \A i \in 1..6 :
         returns[i].name = AdapterOrder[i] /\ v[SectionOf[AdapterOrder[i]]] = returns[i].value
    /\ ModelAnswered /\ v.itinerary = calls[Len(calls)].outcome.data.content
    /\ v.from_location = request.from_location
    /\ v.to_location = request.to_location
    /\ v.start_date = request.start_date
    /\ v.end_date = request.end_date
    /\ v.request_details.from_location = request.from_location
    /\ v.request_details.to_location = request.to_location
    /\ v.request_details.start_date = request.start_date
    /\ v.request_details.end_date = request.end_date
    /\ "number_of_travelers" \in DOMAIN request =>
         /\ v.metadata.number_of_travelers = request.number_of_travelers
         /\ v.request_details.number_of_travelers = request.number_of_travelers
    /\ (http # None /\ http.status = 200) => http.body = v

C9_Witness ==
  /\ outcome.kind = "return"
  /\ pc = "responded"
  /\ http.status = 200
  /\ \E o \in 1..Len(outcome.value.transportation_info) :
       IsDrivingOption(outcome.value.transportation_info[o])
  /\ outcome.value.weather_info # EmptyDict
  /\ Len(outcome.value.attractions) = 2
  /\ Len(outcome.value.restaurants) = 1
  /\ Len(outcome.value.hotels) = 1
  /\ Len(outcome.value.local_tips) = 2
  /\ outcome.value.itinerary = "Here is your itinerary"

(***************************************************************************)
(* The order of the steps of one composition                               *)
(***************************************************************************)
\* the section of the prompt that embeds what an adapter returned
PromptSectionOf(name) ==
  CASE name = "get_transportation" -> "transportation_options"
    [] name = "get_weather_forecast" -> "weather"
    [] name = "get_attractions" -> "attractions"
    [] name = "get_restaurants" -> "restaurants"
    [] name = "get_hotels" -> "hotels"
    [] OTHER -> "local_tips"

\* whether the six adapters have returned, each once and in the order of the code
AllAdaptersReturned(rets) ==
  /\ Len(rets) = 6
  /\ \A i \in 1..6 : rets[i].name = AdapterOrder[i]

\* the calls the adapters made, in the order the adapters returned
RECURSIVE AdapterCalls(_)
AdapterCalls(rets) ==
  IF rets = <<>> THEN <<>> ELSE rets[1].calls \o AdapterCalls(Tail(rets))

\* one step of a composition, as the claim C11 orders it
C11_Step ==
  /\ ModelCalls' # ModelCalls =>
       /\ ModelCalls = {}
       /\ ModelCalls' = {Len(calls')}
       /\ AllAdaptersReturned(returns)
       /\ returns' = returns
       /\ calls = AdapterCalls(returns)
       /\ calls' = Append(calls, calls'[Len(calls')])
       /\ prompt' = calls'[Len(calls')].args[1].content
       /\ \A i \in 1..6 : prompt'[PromptSectionOf(AdapterOrder[i])] = returns[i].value
  /\ returns' # returns =>
       /\ ModelCalls' = {}
       /\ prompt' = None
       /\ outcome' = None
  /\ prompt' # prompt => ModelCalls' # ModelCalls
  /\ (outcome.kind # "return" /\ outcome'.kind = "return") =>
       /\ ModelCalls' # {}
       /\ \A k \in ModelCalls' :
            /\ calls'[k].outcome.kind = "ok"
            /\ outcome'.value.itinerary = calls'[k].outcome.data.content
  /\ ModelCalls # {} => (ModelCalls' = ModelCalls /\ calls' = calls /\ returns' = returns)

\* C11: within one composition the generative model is invoked at most once,
\* and only after all six adapters have returned (data or the empty sentinel);
\* the prompt is built from the six adapter results, never from fewer, and the
\* envelope is assembled only after the model call has returned.
C11_ModelAfterAllAdapters == [][C11_Step]_vars

\* a composition that returned although two adapters had failed: the model
\* was called once, last, with the two sentinels in its prompt
C11_Witness ==
  /\ pc = "returned"
  /\ outcome.kind = "return"
  /\ AllAdaptersReturned(returns)
  /\ ModelCalls = {Len(calls)}
  /\ calls[Len(calls)].outcome.kind = "ok"
  /\ returns[2].value = EmptyDict
  /\ returns[6].value = <<>>
  /\ returns[3].value # <<>>
  /\ prompt.weather = EmptyDict
  /\ prompt.local_tips = <<>>
  /\ prompt.attractions = returns[3].value


=============================================================================
